---- MODULE Spec2Model ----
(***************************************************************************)
(* Model of model/gin.py: the MLP, ApplyNodeFunc and GIN modules.          *)
(* Tensors are symbolic: a shape <<rows, width>>, the sequence of          *)
(* operations applied to the input so far, and an error flag that is set   *)
(* when a module receives an input of a width it was not declared with.    *)
(***************************************************************************)
EXTENDS Integers, Sequences, FiniteSets, TLC

\* ---- bounds ----
MaxLayers == 3
MaxMlpLayers == 3
MaxDim == 2
MaxBatch == 2
MaxNodes == 2

LayerCounts == -1..MaxLayers
MlpLayerCounts == -1..MaxMlpLayers
Dims == 1..MaxDim
PoolingTypes == {"sum", "mean", "max", "attention"}
NeighborTypes == {"sum", "max"}

VARIABLES pc, args, self, error, g, h, hidden_rep, i, score_over_layer,
          mpc, margs, mlp, mx, mout

vars == <<pc, args, self, error, g, h, hidden_rep, i, score_over_layer,
          mpc, margs, mlp, mx, mout>>
ginVars == <<pc, args, self, error, g, h, hidden_rep, i, score_over_layer>>
mlpVars == <<mpc, margs, mlp, mx, mout>>

\* ---- modules and tensors ----
\* python sequence indexing, 0-based
At(s, k) == s[k + 1]

\* range(n) as the 1-based index set of the list it builds
Range(n) == 1..n

Linear(in, out) == [in_features |-> in, out_features |-> out]

BatchNorm1d(n) == [num_features |-> n]

\* identity of a module instance: the list it lives in, the GIN layer, its index
Mod(coll, layer, idx) == [coll |-> coll, layer |-> layer, idx |-> idx]

Functional == Mod("F", -1, -1)

Tensor(rows, width) == [shape |-> <<rows, width>>, expr |-> << >>, err |-> FALSE]

NoTensor == [shape |-> << >>, expr |-> << >>, err |-> FALSE]

ApplyLinear(lin, mod, x) ==
    [shape |-> <<x.shape[1], lin.out_features>>,
     expr  |-> Append(x.expr, [op |-> "linear", mod |-> mod]),
     err   |-> x.err \/ x.shape[2] # lin.in_features]

ApplyBatchNorm(bn, mod, x) ==
    [shape |-> x.shape,
     expr  |-> Append(x.expr, [op |-> "bn", mod |-> mod]),
     err   |-> x.err \/ x.shape[2] # bn.num_features]

Relu(x) == [x EXCEPT !.expr = Append(@, [op |-> "relu", mod |-> Functional])]

Dropout(x) == [x EXCEPT !.expr = Append(@, [op |-> "dropout", mod |-> Mod("drop", -1, -1)])]

\* ---- class MLP ----
NoMLP == [linear_or_not |-> TRUE, num_layers |-> 0, output_dim |-> 0,
          linear |-> << >>, linears |-> << >>, batch_norms |-> << >>,
          raised |-> FALSE]

\* mutant: one hidden linear layer too many
MLPLinears_ExtraHidden(num_layers, input_dim, hidden_dim, output_dim) ==
    <<Linear(input_dim, hidden_dim)>>
      \o [layer \in Range(num_layers - 1) |-> Linear(hidden_dim, hidden_dim)]
      \o <<Linear(hidden_dim, output_dim)>>

MLPLinears(num_layers, input_dim, hidden_dim, output_dim) ==
    <<Linear(input_dim, hidden_dim)>>
      \o [layer \in Range(num_layers - 2) |-> Linear(hidden_dim, hidden_dim)]
      \o <<Linear(hidden_dim, output_dim)>>

MLPBatchNorms(num_layers, hidden_dim) ==
    [layer \in Range(num_layers - 1) |-> BatchNorm1d(hidden_dim)]

MLPInit(num_layers, input_dim, hidden_dim, output_dim) ==
    LET base == [NoMLP EXCEPT !.num_layers = num_layers, !.output_dim = output_dim]
    IN  IF num_layers < 1 THEN [base EXCEPT !.raised = TRUE]
        ELSE IF num_layers = 1
             THEN [base EXCEPT !.linear = <<Linear(input_dim, output_dim)>>]
        ELSE [base EXCEPT !.linear_or_not = FALSE,
                          !.linears = MLPLinears(num_layers, input_dim, hidden_dim, output_dim),
                          !.batch_norms = MLPBatchNorms(num_layers, hidden_dim)]

\* mutant: ReLU before the batch norm
MLPHidden_ReluFirst(m, layer, k, x) ==
    ApplyBatchNorm(At(m.batch_norms, k), Mod("mlp.batch_norms", layer, k),
                   Relu(ApplyLinear(At(m.linears, k), Mod("mlp.linears", layer, k), x)))

\* one iteration of the loop of MLP.forward
MLPHidden(m, layer, k, x) ==
    Relu(ApplyBatchNorm(At(m.batch_norms, k), Mod("mlp.batch_norms", layer, k),
                        ApplyLinear(At(m.linears, k), Mod("mlp.linears", layer, k), x)))

RECURSIVE MLPLoop(_, _, _, _)
MLPLoop(m, layer, k, x) ==
    IF k < m.num_layers - 1 THEN MLPLoop(m, layer, k + 1, MLPHidden(m, layer, k, x))
    ELSE x

MLPForward(m, layer, x) ==
    IF m.linear_or_not
    THEN ApplyLinear(m.linear[1], Mod("mlp.linear", layer, 0), x)
    ELSE ApplyLinear(m.linears[Len(m.linears)],
                     Mod("mlp.linears", layer, Len(m.linears) - 1),
                     MLPLoop(m, layer, 0, x))

\* ---- class ApplyNodeFunc ----
ApplyNodeFuncInit(m) == [mlp |-> m, bn |-> BatchNorm1d(m.output_dim)]

ApplyNodeFuncForward(f, layer, x) ==
    Relu(ApplyBatchNorm(f.bn, Mod("apply_func.bn", layer, 0),
                        MLPForward(f.mlp, layer, x)))

\* ---- GINConv (dgl): aggregate the neighbours, then apply_func ----
GINConv(apply_func, aggregator_type, init_eps, learn_eps) ==
    [apply_func |-> apply_func, aggregator_type |-> aggregator_type,
     init_eps |-> init_eps, learn_eps |-> learn_eps]

GINConvForward(conv, layer, x) ==
    ApplyNodeFuncForward(conv.apply_func, layer,
        [x EXCEPT !.expr = Append(@, [op |-> "aggregate", mod |-> Mod("ginlayers", layer, 0)])])

\* ---- class GIN, constructor ----
NoSelf == [num_layers |-> 0, learn_eps |-> FALSE, ginlayers |-> << >>,
           batch_norms |-> << >>, linears_prediction |-> << >>,
           drop |-> "none", pool |-> "none"]

GinMLP(a, layer) ==
    IF layer = 0
    THEN MLPInit(a.num_mlp_layers, a.input_dim, a.hidden_dim, a.hidden_dim)
    ELSE MLPInit(a.num_mlp_layers, a.hidden_dim, a.hidden_dim, a.hidden_dim)

GinLayers(a) ==
    [k \in Range(a.num_layers - 1) |->
        GINConv(ApplyNodeFuncInit(GinMLP(a, k - 1)), a.neighbor_pooling_type, 0, a.learn_eps)]

\* mutant: a batch norm for the last layer too
GinBatchNorms_OnePerLayer(a) ==
    [k \in Range(a.num_layers) |-> BatchNorm1d(a.hidden_dim)]

GinBatchNorms(a) ==
    [k \in Range(a.num_layers - 1) |-> BatchNorm1d(a.hidden_dim)]

\* mutant: head 0 declared on the hidden width
PredictionHead_AllHidden(a, layer) == Linear(a.hidden_dim, a.output_dim)

PredictionHead(a, layer) ==
    IF layer = 0 THEN Linear(a.input_dim, a.output_dim)
    ELSE Linear(a.hidden_dim, a.output_dim)

LinearsPrediction(a) ==
    [k \in Range(a.num_layers) |-> PredictionHead(a, k - 1)]

\* mutant: mean pooling falls through to the sum operator
GraphPool_MeanAsSum(graph_pooling_type) ==
    CASE graph_pooling_type = "sum"  -> "SumPooling"
      [] graph_pooling_type = "mean" -> "SumPooling"
      [] graph_pooling_type = "max"  -> "MaxPooling"
      [] OTHER -> "none"

GraphPool(graph_pooling_type) ==
    CASE graph_pooling_type = "sum"  -> "SumPooling"
      [] graph_pooling_type = "mean" -> "AvgPooling"
      [] graph_pooling_type = "max"  -> "MaxPooling"
      [] OTHER -> "none"

\* the first MLP built in the loop raises when num_mlp_layers < 1
MLPRaises(a) == a.num_layers - 1 >= 1 /\ GinMLP(a, 0).raised

GINInit ==
    /\ pc = "new"
    /\ IF MLPRaises(args)
       THEN /\ pc' = "raised"
            /\ error' = "ValueError"
            /\ self' = NoSelf
       ELSE IF GraphPool(args.graph_pooling_type) = "none"
       THEN /\ pc' = "raised"
            /\ error' = "NotImplementedError"
            /\ self' = NoSelf
       ELSE /\ pc' = "constructed"
            /\ error' = "none"
            /\ self' = [num_layers |-> args.num_layers,
                        learn_eps |-> args.learn_eps,
                        ginlayers |-> GinLayers(args),
                        batch_norms |-> GinBatchNorms(args),
                        linears_prediction |-> LinearsPrediction(args),
                        drop |-> "Dropout",
                        pool |-> GraphPool(args.graph_pooling_type)]
    /\ UNCHANGED <<args, g, h, hidden_rep, i, score_over_layer>>
    /\ UNCHANGED mlpVars

\* ---- class GIN, forward ----
Pool(x) ==
    [shape |-> <<g.batch_size, x.shape[2]>>,
     expr  |-> Append(x.expr, [op |-> "pool", mod |-> Mod(self.pool, -1, -1)]),
     err   |-> x.err]

ForwardStart ==
    /\ pc = "constructed"
    /\ \E batch_size \in 1..MaxBatch, num_nodes \in 1..MaxNodes, width \in Dims :
         /\ g' = [batch_size |-> batch_size, num_nodes |-> num_nodes]
         /\ h' = Tensor(num_nodes, width)
         /\ hidden_rep' = <<Tensor(num_nodes, width)>>
    /\ i' = 0
    /\ pc' = "layers"
    /\ UNCHANGED <<args, self, error, score_over_layer>>
    /\ UNCHANGED mlpVars

GINLayer(k, x) ==
    Relu(ApplyBatchNorm(At(self.batch_norms, k), Mod("batch_norms", k, 0),
                        GINConvForward(At(self.ginlayers, k), k, x)))

ForwardLayer ==
    /\ pc = "layers"
    /\ i < self.num_layers - 1
    /\ IF i >= Len(self.ginlayers) \/ i >= Len(self.batch_norms)
       THEN /\ pc' = "raised"
            /\ error' = "IndexError"
            /\ UNCHANGED <<h, hidden_rep, i>>
       ELSE IF GINLayer(i, h).err
       THEN /\ pc' = "raised"
            /\ error' = "RuntimeError"
            /\ UNCHANGED <<h, hidden_rep, i>>
       ELSE /\ h' = GINLayer(i, h)
            /\ hidden_rep' = Append(hidden_rep, GINLayer(i, h))
            /\ i' = i + 1
            /\ UNCHANGED <<pc, error>>
    /\ UNCHANGED <<args, self, g, score_over_layer>>
    /\ UNCHANGED mlpVars

ForwardScoreInit ==
    /\ pc = "layers"
    /\ i >= self.num_layers - 1
    /\ score_over_layer' = [shape |-> << >>, terms |-> << >>]
    /\ i' = 0
    /\ pc' = "pool"
    /\ UNCHANGED <<args, self, error, g, h, hidden_rep>>
    /\ UNCHANGED mlpVars

\* mutant: every layer scored by head 0
PredictionTerm_SharedHead(k, x) ==
    Dropout(ApplyLinear(At(self.linears_prediction, 0),
                        Mod("linears_prediction", 0, 0), Pool(x)))

\* mutant: dropout on the pooled features instead of the head output
PredictionTerm_DropoutFirst(k, x) ==
    ApplyLinear(At(self.linears_prediction, k),
                Mod("linears_prediction", k, 0), Dropout(Pool(x)))

PredictionTerm(k, x) == Dropout(ApplyLinear(At(self.linears_prediction, k),
                                            Mod("linears_prediction", k, 0), Pool(x)))

ForwardPool ==
    /\ pc = "pool"
    /\ i < Len(hidden_rep)
    /\ IF i >= Len(self.linears_prediction)
       THEN /\ pc' = "raised"
            /\ error' = "IndexError"
            /\ UNCHANGED <<h, i, score_over_layer>>
       ELSE IF \/ PredictionTerm(i, At(hidden_rep, i)).err
               \/ /\ score_over_layer.shape # << >>
                  /\ score_over_layer.shape # PredictionTerm(i, At(hidden_rep, i)).shape
       THEN /\ pc' = "raised"
            /\ error' = "RuntimeError"
            /\ UNCHANGED <<h, i, score_over_layer>>
       ELSE /\ h' = At(hidden_rep, i)
            /\ score_over_layer' =
                 [shape |-> PredictionTerm(i, At(hidden_rep, i)).shape,
                  terms |-> Append(score_over_layer.terms, PredictionTerm(i, At(hidden_rep, i)))]
            /\ i' = i + 1
            /\ UNCHANGED <<pc, error>>
    /\ UNCHANGED <<args, self, g, hidden_rep>>
    /\ UNCHANGED mlpVars

ForwardReturn ==
    /\ pc = "pool"
    /\ i >= Len(hidden_rep)
    /\ pc' = "done"
    /\ UNCHANGED <<args, self, error, g, h, hidden_rep, i, score_over_layer>>
    /\ UNCHANGED mlpVars

GinArgs ==
    [num_layers : LayerCounts, num_mlp_layers : MlpLayerCounts,
     input_dim : Dims, hidden_dim : Dims, output_dim : Dims,
     learn_eps : BOOLEAN, graph_pooling_type : PoolingTypes,
     neighbor_pooling_type : NeighborTypes]

MlpIdle ==
    /\ mpc = "idle"
    /\ margs = [num_layers |-> 0, input_dim |-> 0, hidden_dim |-> 0, output_dim |-> 0]
    /\ mlp = NoMLP
    /\ mx = NoTensor
    /\ mout = NoTensor

GinIdle ==
    /\ pc = "idle"
    /\ args = [num_layers |-> 0]
    /\ self = NoSelf
    /\ error = "none"
    /\ g = [batch_size |-> 0, num_nodes |-> 0]
    /\ h = NoTensor
    /\ hidden_rep = << >>
    /\ i = 0
    /\ score_over_layer = [shape |-> << >>, terms |-> << >>]

Init ==
    /\ pc = "new"
    /\ args \in GinArgs
    /\ self = NoSelf
    /\ error = "none"
    /\ g = [batch_size |-> 0, num_nodes |-> 0]
    /\ h = NoTensor
    /\ hidden_rep = << >>
    /\ i = 0
    /\ score_over_layer = [shape |-> << >>, terms |-> << >>]
    /\ MlpIdle

Next ==
    \/ GINInit
    \/ ForwardStart
    \/ ForwardLayer
    \/ ForwardScoreInit
    \/ ForwardPool
    \/ ForwardReturn

Spec == Init /\ [][Next]_vars

\* ---- the MLP on its own ----
MlpArgs ==
    [num_layers : MlpLayerCounts, input_dim : Dims, hidden_dim : Dims, output_dim : Dims]

MLPConstruct ==
    /\ mpc = "new"
    /\ mlp' = MLPInit(margs.num_layers, margs.input_dim, margs.hidden_dim, margs.output_dim)
    /\ mpc' = IF mlp'.raised THEN "raised" ELSE "constructed"
    /\ UNCHANGED <<margs, mx, mout>>
    /\ UNCHANGED ginVars

MLPCall ==
    /\ mpc = "constructed"
    /\ \E rows \in 1..MaxNodes, width \in Dims :
         /\ mx' = Tensor(rows, width)
         /\ mout' = MLPForward(mlp, -1, Tensor(rows, width))
    /\ mpc' = IF mout'.err THEN "failed" ELSE "called"
    /\ UNCHANGED <<margs, mlp>>
    /\ UNCHANGED ginVars

InitMLP ==
    /\ mpc = "new"
    /\ margs \in MlpArgs
    /\ mlp = NoMLP
    /\ mx = NoTensor
    /\ mout = NoTensor
    /\ GinIdle

NextMLP ==
    \/ MLPConstruct
    \/ MLPCall

SpecMLP == InitMLP /\ [][NextMLP]_vars


\* ---- properties ----
Recognized == {"sum", "mean", "max"}

\* GIN.__init__ returned an object
Constructed ==
    \/ pc \in {"constructed", "layers", "pool", "done"}
    \/ pc = "raised" /\ error \in {"IndexError", "RuntimeError"}

ValidCounts == args.num_layers >= 1 /\ args.num_mlp_layers >= 1

\* C1: whenever a layer count is not positive (num_layers < 1 or
\* num_mlp_layers < 1) the constructor raises: no object is ever constructed,
\* and so no forward pass runs on one.
C1_InvalidCountsRejected ==
    (pc # "new" /\ ~ValidCounts) =>
        /\ ~Constructed
        /\ pc = "raised"
        /\ error \in {"ValueError", "NotImplementedError"}

\* C2: with valid layer counts, construction succeeds exactly when
\* graph_pooling_type is sum, mean or max; any other value raises
\* NotImplementedError; a recognized value selects the matching operator.
C2_PoolingTypeDecides ==
    (pc # "new" /\ ValidCounts) =>
        /\ Constructed <=> args.graph_pooling_type \in Recognized
        /\ args.graph_pooling_type \notin Recognized =>
               pc = "raised" /\ error = "NotImplementedError"
        /\ args.graph_pooling_type = "sum"  => self.pool = "SumPooling"
        /\ args.graph_pooling_type = "mean" => self.pool = "AvgPooling"
        /\ args.graph_pooling_type = "max"  => self.pool = "MaxPooling"

C2_Witness ==
    /\ pc = "constructed"
    /\ ValidCounts
    /\ args.graph_pooling_type = "mean"
    /\ self.pool = "AvgPooling"

\* the forward pass was given node features of width input_dim
ValidInput == Len(hidden_rep) >= 1 /\ hidden_rep[1].shape[2] = args.input_dim

\* C3: on a constructed GIN with valid layer counts and node features of width
\* input_dim, no module ever receives an input of the wrong width and no index
\* is out of range, and the returned score has shape (batch_size, output_dim).
C3_OutputShape ==
    (Constructed /\ ValidCounts /\ ValidInput) =>
        /\ pc # "raised"
        /\ pc = "done" => score_over_layer.shape = <<g.batch_size, args.output_dim>>

C3_Witness ==
    /\ pc = "done"
    /\ args.num_layers = 3
    /\ args.num_mlp_layers = 2
    /\ args.input_dim # args.hidden_dim
    /\ args.hidden_dim # args.output_dim
    /\ g.batch_size # g.num_nodes
    /\ score_over_layer.shape = <<g.batch_size, args.output_dim>>

\* C4: the MLP constructor branches on num_layers alone: below 1 it raises and
\* holds no layer; at 1 it holds the single linear input_dim -> output_dim, no
\* batch norm, and forward applies only that; from 2 on it holds num_layers
\* linears (input->hidden, hidden->hidden num_layers-2 times, hidden->output)
\* and num_layers-1 batch norms of width hidden_dim.
C4_MLPBranch ==
    mpc # "new" =>
        /\ margs.num_layers < 1 =>
              /\ mpc = "raised"
              /\ mlp.linear = << >> /\ mlp.linears = << >> /\ mlp.batch_norms = << >>
        /\ margs.num_layers = 1 =>
              /\ mpc # "raised"
              /\ mlp.linear_or_not
              /\ mlp.linear = <<[in_features |-> margs.input_dim,
                                 out_features |-> margs.output_dim]>>
              /\ mlp.linears = << >> /\ mlp.batch_norms = << >>
              /\ mpc = "called" =>
                    mout.expr = <<[op |-> "linear", mod |-> Mod("mlp.linear", -1, 0)]>>
        /\ margs.num_layers >= 2 =>
              /\ mpc # "raised"
              /\ ~mlp.linear_or_not
              /\ mlp.linear = << >>
              /\ Len(mlp.linears) = margs.num_layers
              /\ \A k \in 1..margs.num_layers :
                    /\ mlp.linears[k].in_features =
                          IF k = 1 THEN margs.input_dim ELSE margs.hidden_dim
                    /\ mlp.linears[k].out_features =
                          IF k = margs.num_layers THEN margs.output_dim ELSE margs.hidden_dim
              /\ Len(mlp.batch_norms) = margs.num_layers - 1
              /\ \A k \in 1..(margs.num_layers - 1) :
                    mlp.batch_norms[k].num_features = margs.hidden_dim

C4_Witness ==
    /\ mpc = "constructed"
    /\ margs.num_layers = 3
    /\ margs.hidden_dim # margs.output_dim
    /\ margs.hidden_dim # margs.input_dim
    /\ Len(mlp.linears) = 3

\* C5: the value forward returns is the sum of num_layers terms; term i is
\* dropout(linears_prediction[i](pool(hidden_rep[i]))), and hidden_rep[0] is
\* the input tensor with nothing applied to it.
C5_ScoreIsSumOverLayers ==
    pc = "done" =>
        /\ Len(score_over_layer.terms) = args.num_layers
        /\ Len(hidden_rep) = args.num_layers
        /\ hidden_rep[1].expr = << >>
        /\ \A k \in 1..Len(score_over_layer.terms) :
              score_over_layer.terms[k].expr =
                  hidden_rep[k].expr \o
                  <<[op |-> "pool", mod |-> Mod(self.pool, -1, -1)],
                    [op |-> "linear", mod |-> Mod("linears_prediction", k - 1, 0)],
                    [op |-> "dropout", mod |-> Mod("drop", -1, -1)]>>

C5_Witness ==
    /\ pc = "done"
    /\ args.num_layers = 3
    /\ Len(score_over_layer.terms) = 3

\* learnable modules the constructors created
Created ==
    {Mod("ginlayers", k - 1, 0) : k \in 1..Len(self.ginlayers)}
    \cup {Mod("apply_func.bn", k - 1, 0) : k \in 1..Len(self.ginlayers)}
    \cup {Mod("batch_norms", k - 1, 0) : k \in 1..Len(self.batch_norms)}
    \cup {Mod("linears_prediction", k - 1, 0) : k \in 1..Len(self.linears_prediction)}
    \cup UNION {{Mod("mlp.linear", k - 1, j - 1) :
                    j \in 1..Len(self.ginlayers[k].apply_func.mlp.linear)} :
                k \in 1..Len(self.ginlayers)}
    \cup UNION {{Mod("mlp.linears", k - 1, j - 1) :
                    j \in 1..Len(self.ginlayers[k].apply_func.mlp.linears)} :
                k \in 1..Len(self.ginlayers)}
    \cup UNION {{Mod("mlp.batch_norms", k - 1, j - 1) :
                    j \in 1..Len(self.ginlayers[k].apply_func.mlp.batch_norms)} :
                k \in 1..Len(self.ginlayers)}

\* learnable modules the returned score was computed with
Used ==
    UNION {{score_over_layer.terms[k].expr[j].mod :
               j \in {n \in 1..Len(score_over_layer.terms[k].expr) :
                        score_over_layer.terms[k].expr[n].op \in {"linear", "bn", "aggregate"}}} :
           k \in 1..Len(score_over_layer.terms)}

UsedOf(coll) == {m.layer : m \in {u \in Used : u.coll = coll}}

\* C6: with valid layer counts forward never indexes out of range, uses
\* ginlayers[i] and batch_norms[i] for exactly i in 0..num_layers-2 and
\* linears_prediction[i] for exactly i in 0..num_layers-1, and the modules the
\* score is computed with are exactly the modules the constructors created.
C6_CreatedEqualsUsed ==
    (Constructed /\ ValidCounts) =>
        /\ error # "IndexError"
        /\ pc = "done" =>
              /\ Used = Created
              /\ UsedOf("ginlayers") = 0..(args.num_layers - 2)
              /\ UsedOf("batch_norms") = 0..(args.num_layers - 2)
              /\ UsedOf("linears_prediction") = 0..(args.num_layers - 1)

C6_Witness ==
    /\ pc = "done"
    /\ args.num_layers = 3
    /\ args.num_mlp_layers = 3
    /\ Cardinality(Created) = 2 * (1 + 1 + 1 + 3 + 2) + 3
    /\ Used = Created

\* C7: the output of MLP.forward is linear: layer j < num_layers-1 is applied
\* as linear j, batch norm j, ReLU, in that order, and the last operation is
\* the final linear layer.
C7_MLPLinearOutput ==
    /\ (mpc = "called" /\ margs.num_layers = 1) =>
          mout.expr = <<[op |-> "linear", mod |-> Mod("mlp.linear", -1, 0)]>>
    /\ (mpc = "called" /\ margs.num_layers >= 2) =>
        /\ Len(mout.expr) = 3 * (margs.num_layers - 1) + 1
        /\ \A j \in 0..(margs.num_layers - 2) :
              /\ mout.expr[3 * j + 1] = [op |-> "linear", mod |-> Mod("mlp.linears", -1, j)]
              /\ mout.expr[3 * j + 2] = [op |-> "bn", mod |-> Mod("mlp.batch_norms", -1, j)]
              /\ mout.expr[3 * j + 3] = [op |-> "relu", mod |-> Functional]
        /\ mout.expr[Len(mout.expr)] =
              [op |-> "linear", mod |-> Mod("mlp.linears", -1, margs.num_layers - 1)]

C7_Witness ==
    /\ mpc = "called"
    /\ margs.num_layers = 3
    /\ Len(mout.expr) = 7

\* what one GIN layer appends to a representation: neighbour aggregation, the
\* MLP, ApplyNodeFunc's batch norm and ReLU, then batch_norms[k] and ReLU
RECURSIVE MlpOps(_, _, _)
MlpOps(n, layer, j) ==
    IF n = 1 THEN <<[op |-> "linear", mod |-> Mod("mlp.linear", layer, 0)]>>
    ELSE IF j = n - 1 THEN <<[op |-> "linear", mod |-> Mod("mlp.linears", layer, j)]>>
    ELSE <<[op |-> "linear", mod |-> Mod("mlp.linears", layer, j)],
           [op |-> "bn", mod |-> Mod("mlp.batch_norms", layer, j)],
           [op |-> "relu", mod |-> Functional]>> \o MlpOps(n, layer, j + 1)

LayerOps(k) ==
    <<[op |-> "aggregate", mod |-> Mod("ginlayers", k, 0)]>>
    \o MlpOps(args.num_mlp_layers, k, 0)
    \o <<[op |-> "bn", mod |-> Mod("apply_func.bn", k, 0)],
         [op |-> "relu", mod |-> Functional],
         [op |-> "bn", mod |-> Mod("batch_norms", k, 0)],
         [op |-> "relu", mod |-> Functional]>>

Chain ==
    \A k \in 1..(Len(hidden_rep) - 1) :
        hidden_rep[k + 1].expr = hidden_rep[k].expr \o LayerOps(k - 1)

\* C8: when the layer loop of forward has ended, hidden_rep has exactly
\* num_layers entries and entry i+1 is entry i passed through GINConv i,
\* batch_norms[i] and ReLU.
C8_HiddenRepChain ==
    pc = "pool" =>
        /\ Len(hidden_rep) = args.num_layers
        /\ Chain

\* C9: dropout is applied exactly once to each prediction-head output, as the
\* last operation of the term, directly after the linear head; no hidden
\* representation carries a dropout.
DropoutCount(e) == Cardinality({n \in 1..Len(e) : e[n].op = "dropout"})

C9_DropoutOnlyOnHeads ==
    /\ \A k \in 1..Len(hidden_rep) : DropoutCount(hidden_rep[k].expr) = 0
    /\ DropoutCount(h.expr) = 0
    /\ \A k \in 1..Len(score_over_layer.terms) :
          LET e == score_over_layer.terms[k].expr
          IN  /\ DropoutCount(e) = 1
              /\ e[Len(e)].op = "dropout"
              /\ e[Len(e) - 1] = [op |-> "linear", mod |-> Mod("linears_prediction", k - 1, 0)]
              /\ e[Len(e) - 2].op = "pool"

C9_Witness ==
    /\ pc = "done"
    /\ args.num_layers = 2
    /\ Len(score_over_layer.terms) = 2
    /\ DropoutCount(score_over_layer.terms[2].expr) = 1

====
